---- MODULE Spec2Model ----
(***************************************************************************)
(* PAD2Skills dashboard: the occupations page (pages/01) and the skills    *)
(* page (pages/02) as a state machine over the Streamlit session.  One     *)
(* action is one user interaction together with the script run(s) it       *)
(* triggers; `view' is what the last completed script run put on screen.   *)
(***************************************************************************)
EXTENDS FiniteSets, Integers, Sequences, TLC

VARIABLES df, skill_df, page, session_state, widget_state, view, argsort_ties,
          on_message_callback

vars == <<df, skill_df, page, session_state, widget_state, view, argsort_ties,
          on_message_callback>>

----------------------------------------------------------------------------
(* Bounds of the model *)

MaxP1Rows == 23
MaxP2Rows == 10
MaxSmallRows == 2
MaxJobZone == 6
MaxSkillCategories == 6
MaxMessages == 4

----------------------------------------------------------------------------
(* Literals of the program *)

None == "None"
NaN == "NaN"
NaNNum == -1
ALL == "ALL"
AllIndustries == "All Industries"
AllOption == "All"
Energy == "Energy"
Mining == "Mining and Quarrying Activities"
MiningShort == "Mining and Quarrying Activit..."

Min(a, b) == IF a <= b THEN a ELSE b
Max(a, b) == IF a >= b THEN a ELSE b
Range(s) == {s[i] : i \in DOMAIN s}

(* Collation order of the strings the model sorts (Python str ordering). *)
Collation == <<"Energy", "Mining and Quarrying Activities", "P1", "P2",
               "Zone 1", "Zone 2", "Zone 3", "Zone 4", "Zone 5",
               "arts and humanities", "business", "education", "engineering",
               "health", "knowledge", "services", "skills">>
CollationRank ==
    [s \in Range(Collation) |-> CHOOSE i \in DOMAIN Collation : Collation[i] = s]
StrRank(s) == IF s = NaN THEN Len(Collation) + 1 ELSE CollationRank[s]

(* The sequence with the n elements of the function f on 1..n *)
Tuple(f, n) == SubSeq(f, 1, n)

(* list.index(x): position of the first occurrence *)
ListIndex(s, x) == CHOOSE i \in DOMAIN s : s[i] = x /\ \A j \in 1..(i - 1) : s[j] # x

(* Lexicographic order of the sort keys (triples of integers) *)
KeyLess(a, b) ==
    \/ a[1] < b[1]
    \/ a[1] = b[1] /\ (a[2] < b[2] \/ (a[2] = b[2] /\ a[3] < b[3]))

(* A stable sort by Key (a merge sort that takes the left element on a   *)
(* tie), as DataFrame.sort_values does for several columns.               *)
RECURSIVE Merge(_, _)
Merge(a, b) ==
    IF a = <<>> THEN b
    ELSE IF b = <<>> THEN a
    ELSE IF KeyLess(Head(b).k, Head(a).k)
         THEN <<Head(b)>> \o Merge(a, Tail(b))
         ELSE <<Head(a)>> \o Merge(Tail(a), b)

RECURSIVE MergeSort(_)
MergeSort(items) ==
    IF Len(items) <= 1 THEN items
    ELSE LET h == Len(items) \div 2
         IN Merge(MergeSort(SubSeq(items, 1, h)),
                  MergeSort(SubSeq(items, h + 1, Len(items))))

StableSort(s, Key(_)) ==
    LET n == Len(s)
        sorted == MergeSort(Tuple([i \in 1..n |-> [k |-> Key(s[i]), v |-> s[i]]], n))
    IN Tuple([i \in 1..n |-> sorted[i].v], n)

(* sorted(set of integers) *)
RECURSIVE SortedInts(_)
SortedInts(S) ==
    IF S = {} THEN <<>>
    ELSE LET m == CHOOSE x \in S : \A y \in S : x <= y
         IN <<m>> \o SortedInts(S \ {m})

(* sorted(set of strings) *)
RECURSIVE SortedStrs(_)
SortedStrs(S) ==
    IF S = {} THEN <<>>
    ELSE LET m == CHOOSE x \in S : \A y \in S : StrRank(x) <= StrRank(y)
         IN <<m>> \o SortedStrs(S \ {m})

(* DataFrame.iloc[start:end]: a slice, whose negative bounds count from  *)
(* the end and whose bounds beyond the end stop at it                     *)
SliceBound(s, i) == IF i < 0 THEN Max(0, Len(s) + i) ELSE Min(i, Len(s))
ILoc(s, start, end) ==
    LET lo == SliceBound(s, start)
        hi == SliceBound(s, end)
    IN IF lo < hi THEN SubSeq(s, lo + 1, hi) ELSE <<>>

----------------------------------------------------------------------------
(* st.session_state and the keyed widget store *)

Has(ss, k) == k \in DOMAIN ss
Put(ss, k, v) == [x \in (DOMAIN ss) \cup {k} |-> IF x = k THEN v ELSE ss[x]]
SetDefault(ss, k, v) == IF Has(ss, k) THEN ss ELSE Put(ss, k, v)
Drop(ws, K) == [x \in (DOMAIN ws) \ K |-> ws[x]]
EmptyState == [x \in {} |-> None]

(* st.selectbox(options, index=0, key): a widget seen for the first time  *)
(* shows options[0]; one rendered with the same options keeps its value;  *)
(* one whose options changed falls back to options[0] when its value is   *)
(* no longer offered, and otherwise keeps or drops the value depending on *)
(* how the Streamlit build identifies the widget (keep).                   *)
SelectboxValue(ws, key, options, keep) ==
    IF ~Has(ws, key) THEN options[1]
    ELSE IF ws[key].options = options THEN ws[key].value
    ELSE IF keep /\ ws[key].value \in Range(options) THEN ws[key].value
    ELSE options[1]

SelectboxPut(ws, key, options, value) ==
    Put(ws, key, [value |-> value, options |-> options])

(* st.checkbox(value=default, key) *)
CheckboxValue(ws, key, default) == IF Has(ws, key) THEN ws[key].value ELSE default

----------------------------------------------------------------------------
(* src/chat.py *)

init_chat_session_state(ss) ==
    SetDefault(SetDefault(SetDefault(ss, "show_chat", TRUE),
                          "messages", <<>>),
               "pending_prompt", None)

(* Text is a sequence of characters. *)
UpperCase ==
    <<"A", "B", "C", "D", "E", "F", "G", "H", "I", "J", "K", "L", "M",
      "N", "O", "P", "Q", "R", "S", "T", "U", "V", "W", "X", "Y", "Z">>
LowerCase ==
    <<"a", "b", "c", "d", "e", "f", "g", "h", "i", "j", "k", "l", "m",
      "n", "o", "p", "q", "r", "s", "t", "u", "v", "w", "x", "y", "z">>

(* str.lower() *)
Lower(text) ==
    Tuple([i \in DOMAIN text |->
             IF text[i] \in Range(UpperCase)
             THEN LowerCase[ListIndex(UpperCase, text[i])]
             ELSE text[i]], Len(text))

(* sub in text *)
Contains(text, sub) ==
    \E i \in 1..(Len(text) - Len(sub) + 1) : SubSeq(text, i, i + Len(sub) - 1) = sub

(* bool(text) of a str or None *)
Truthy(text) == text # None /\ text # <<>>

(* pages/01_Occupations_Overview.py, lines 352 and 355: the questions of  *)
(* the two pills                                                           *)
PillIndustries ==
    <<"W", "h", "a", "t", " ", "i", "n", "d", "u", "s", "t", "r", "i",
      "e", "s", " ", "h", "a", "v", "e", " ", "t", "h", "e", " ", "m",
      "o", "s", "t", " ", "j", "o", "b", "s", "?">>
PillOtherData ==
    <<"W", "h", "a", "t", " ", "o", "t", "h", "e", "r", " ", "d", "a",
      "t", "a", " ", "c", "a", "n", " ", "I", " ", "e", "x", "a", "m",
      "i", "n", "e", "?">>
PillQuestions == {PillIndustries, PillOtherData}

(* lines 363, 365 and 367: the replies *)
IndustryResponse ==
    <<"B", "a", "s", "e", "d", " ", "o", "n", " ", "t", "h", "e", " ",
      "d", "a", "t", "a", ",", " ", "t", "h", "e", " ", "t", "o", "p",
      " ", "i", "n", "d", "u", "s", "t", "r", "i", "e", "s", " ", "a",
      "r", "e", " ", "s", "h", "o", "w", "n", " ", "i", "n", " ", "t",
      "h", "e", " ", "c", "h", "a", "r", "t", " ", "a", "b", "o", "v",
      "e", ".">>
OtherDataResponse ==
    <<"Y", "o", "u", " ", "c", "a", "n", " ", "e", "x", "p", "l", "o",
      "r", "e", " ", "s", "k", "i", "l", "l", "s", " ", "d", "a", "t",
      "a", " ", "a", "n", "d", " ", "t", "r", "a", "i", "n", "i", "n",
      "g", " ", "p", "r", "o", "g", "r", "a", "m", "s", " ", "i", "n",
      " ", "o", "t", "h", "e", "r", " ", "p", "a", "g", "e", "s", ".">>
FallbackPrefix ==
    <<"T", "h", "a", "n", "k", "s", " ", "f", "o", "r", " ", "y", "o",
      "u", "r", " ", "q", "u", "e", "s", "t", "i", "o", "n", ":", " ",
      "'">>
FallbackSuffix ==
    <<"'", ".", " ", "I", "'", "m", " ", "s", "t", "i", "l", "l", " ",
      "l", "e", "a", "r", "n", "i", "n", "g", "!">>

(* A responder that matches the text as typed *)
CaseSensitiveCallback(user_message) ==
    IF /\ Contains(user_message, <<"i", "n", "d", "u", "s", "t", "r", "i", "e", "s">>)
       /\ Contains(user_message, <<"m", "o", "s", "t">>)
    THEN IndustryResponse
    ELSE IF \/ Contains(user_message, <<"d", "a", "t", "a">>)
            \/ Contains(user_message, <<"e", "x", "a", "m", "i", "n", "e">>)
    THEN OtherDataResponse
    ELSE FallbackPrefix \o user_message \o FallbackSuffix

(* lines 359-367 *)
occupation_chat_callback(user_message) ==
    LET lower_msg == Lower(user_message)
    IN IF /\ Contains(lower_msg, <<"i", "n", "d", "u", "s", "t", "r", "i", "e", "s">>)
          /\ Contains(lower_msg, <<"m", "o", "s", "t">>)
       THEN IndustryResponse
       ELSE IF \/ Contains(lower_msg, <<"d", "a", "t", "a">>)
               \/ Contains(lower_msg, <<"e", "x", "a", "m", "i", "n", "e">>)
       THEN OtherDataResponse
       ELSE FallbackPrefix \o user_message \o FallbackSuffix

(* chat.py, line 51: render_chat_bottom_bar takes any callable as its     *)
(* on_message_callback.  The occupations page passes its own (pages/01,   *)
(* lines 369-372), which returns for every text; a callable may also      *)
(* raise, and the exception then leaves get_response and the script run.  *)
PageCallback == "occupation_chat_callback"
RaisingCallback == "raises"
Callbacks == {PageCallback, RaisingCallback}
CallbackRaises == on_message_callback = RaisingCallback

(* chat.py, lines 67-70, when the callback returns *)
get_response(user_text) == occupation_chat_callback(user_text)

(* A pill that also returns the session to all projects *)
PresetClearsProject(ss, question) ==
    Put(Put(Put(init_chat_session_state(ss), "pending_prompt", question), "show_chat", TRUE),
        "selected_project", ALL)

(* chat.py, lines 39-43 *)
handle_preset_question(ss, question) ==
    Put(Put(init_chat_session_state(ss), "pending_prompt", question), "show_chat", TRUE)

Message(role, content) == [role |-> role, content |-> content]

(* A pending prompt taken from the session without an answer to it *)
ConsumeUnanswered(ss) ==
    IF Truthy(ss["pending_prompt"])
    THEN [ss |-> Put(Put(ss, "pending_prompt", None), "messages",
                     Append(ss["messages"], Message("user", ss["pending_prompt"]))),
          rerun |-> TRUE, raised |-> FALSE, calls |-> <<>>]
    ELSE [ss |-> ss, rerun |-> FALSE, raised |-> FALSE, calls |-> <<>>]

(* A pending prompt answered twice *)
ConsumeTwice(ss) ==
    IF Truthy(ss["pending_prompt"])
    THEN LET pair == <<Message("user", ss["pending_prompt"]),
                       Message("assistant", occupation_chat_callback(ss["pending_prompt"]))>>
         IN [ss |-> Put(Put(ss, "pending_prompt", None), "messages",
                        ss["messages"] \o pair \o pair),
             rerun |-> TRUE, raised |-> FALSE, calls |-> <<ss["pending_prompt"]>>]
    ELSE [ss |-> ss, rerun |-> FALSE, raised |-> FALSE, calls |-> <<>>]

(* The outcome of the two appends of a transcript writer: ss2 holds the   *)
(* user's entry; the assistant's entry is appended and st.rerun() called  *)
(* when the callback returns, and the run ends in the exception, with the *)
(* writes made so far kept in the session, when it raises.                 *)
Answered(ss2, prompt) ==
    IF CallbackRaises
    THEN [ss |-> ss2, rerun |-> FALSE, raised |-> TRUE, calls |-> <<prompt>>]
    ELSE [ss |-> Put(ss2, "messages",
                     Append(ss2["messages"], Message("assistant", get_response(prompt)))),
          rerun |-> TRUE, raised |-> FALSE, calls |-> <<prompt>>]

(* lines 72-78: a pending prompt is consumed and the script reruns; calls *)
(* are the texts handed to on_message_callback.                            *)
ConsumePending(ss) ==
    IF Truthy(ss["pending_prompt"])
    THEN LET prompt == ss["pending_prompt"]
             ss1 == Put(ss, "pending_prompt", None)
             ss2 == Put(ss1, "messages", Append(ss1["messages"], Message("user", prompt)))
         IN Answered(ss2, prompt)
    ELSE [ss |-> ss, rerun |-> FALSE, raised |-> FALSE, calls |-> <<>>]

(* A submission that starts the transcript anew *)
ChatInputReplaces(ss, prompt) ==
    IF Truthy(prompt)
    THEN Answered(Put(Put(ss, "show_chat", TRUE), "messages", <<Message("user", prompt)>>),
                  prompt)
    ELSE [ss |-> ss, rerun |-> FALSE, raised |-> FALSE, calls |-> <<>>]

(* A submission that leaves a hidden history hidden *)
ChatInputKeepsHidden(ss, prompt) ==
    IF Truthy(prompt)
    THEN Answered(Put(ss, "messages", Append(ss["messages"], Message("user", prompt))),
                  prompt)
    ELSE [ss |-> ss, rerun |-> FALSE, raised |-> FALSE, calls |-> <<>>]

(* lines 134-140: the text submitted in st.chat_input *)
ChatInput(ss, prompt) ==
    IF Truthy(prompt)
    THEN LET ss1 == Put(ss, "show_chat", TRUE)
             ss2 == Put(ss1, "messages", Append(ss1["messages"], Message("user", prompt)))
         IN Answered(ss2, prompt)
    ELSE [ss |-> ss, rerun |-> FALSE, raised |-> FALSE, calls |-> <<>>]

(* lines 49-148: render_chat_bottom_bar in a run in which st.chat_input   *)
(* returns prompt (None when nothing was submitted)                        *)
render_chat_bottom_bar(ss, prompt) ==
    LET ss1 == init_chat_session_state(ss)
        pending == ConsumePending(ss1)
    IN IF pending.rerun \/ pending.raised THEN pending ELSE ChatInput(ss1, prompt)

(* lines 64-65 *)
toggle_chat(ss) == Put(ss, "show_chat", ~ss["show_chat"])

----------------------------------------------------------------------------
(* pages/01_Occupations_Overview.py *)

rows_per_page == 10

shorten_industry_name(name) ==
    IF name = NaN THEN name
    ELSE IF name = Mining THEN MiningShort
    ELSE name

(* The pseudo-random generator behind random_state: a linear congruential *)
(* generator stands in for NumPy's; what matters is that it is a function *)
(* of the seed and of the draws made so far.                               *)
NextRandom(s) == (75 * s + 74) % 65537

(* df.groupby('esco_id').sample(n=1, random_state=seed).reset_index():    *)
(* groups in ascending key order, one generator shared by the groups.     *)
RECURSIVE SampleGroups(_, _, _)
SampleGroups(rows, keys, rng) ==
    IF keys = <<>> THEN <<>>
    ELSE LET group == SelectSeq(rows, LAMBDA r : r.esco_id = Head(keys))
             r1 == NextRandom(rng)
         IN <<group[(r1 % Len(group)) + 1]>> \o SampleGroups(rows, Tail(keys), r1)

GroupSample(rows, seed) ==
    SampleGroups(rows, SortedInts({rows[i].esco_id : i \in DOMAIN rows}), seed)

(* A generator that is not re-seeded: its state carries over from the     *)
(* render before.                                                          *)
CarriedRandomState ==
    42 + Cardinality({i \in DOMAIN view.filtered_df :
                         view.filtered_df[i].project_title = "P1"})

(* line 168 *)
random_state == 42

(* The "ALL" view without the one-row-per-occupation sample *)
OccFilteredDfNoSample(rows, selected_project) ==
    IF selected_project = ALL
    THEN rows
    ELSE SelectSeq(rows, LAMBDA r : r.project_title = selected_project)

(* lines 164-170 *)
OccFilteredDf(rows, selected_project) ==
    IF selected_project = ALL
    THEN GroupSample(rows, random_state)
    ELSE SelectSeq(rows, LAMBDA r : r.project_title = selected_project)

(* The groups of groupby('industry_cat_label'): the labels in ascending   *)
(* order, rows without a label in no group.                                *)
IndustryLabels(filtered) ==
    SortedStrs({filtered[i].industry_cat_label : i \in DOMAIN filtered} \ {NaN})

(* A count of the rows of each industry *)
IndustryRowCounts(filtered) ==
    LET labels == IndustryLabels(filtered)
    IN Tuple([k \in DOMAIN labels |->
                [Industry |-> labels[k],
                 JobCount |-> Cardinality({j \in DOMAIN filtered :
                                 filtered[j].industry_cat_label = labels[k]})]],
             Len(labels))

(* line 173: groupby('industry_cat_label')['esco_id'].nunique() *)
IndustryGroups(filtered) ==
    LET labels == IndustryLabels(filtered)
    IN Tuple([k \in DOMAIN labels |->
                [Industry |-> labels[k],
                 JobCount |-> Cardinality({filtered[j].esco_id : j \in
                                 {j \in DOMAIN filtered :
                                    filtered[j].industry_cat_label = labels[k]}})]],
             Len(labels))

(* line 175: sort_values('Job Count', ascending=False) with the default   *)
(* kind, quicksort, which is not a stable sort: what order it leaves rows *)
(* of equal count in depends on the NumPy build (its insertion sort keeps *)
(* them as they were, its vectorised sorting networks do not).  The       *)
(* session runs on one build, argsort_ties.                                *)
TieKey(c) == IF argsort_ties = "stable" THEN 0 ELSE 0 - StrRank(c.Industry)
IndustryCounts(filtered) ==
    StableSort(IndustryGroups(filtered), LAMBDA c : <<0 - c.JobCount, TieKey(c), 0>>)

ByIndustry(rows, industry) ==
    SelectSeq(rows, LAMBDA r : r.industry_cat_label = industry)

(* lines 265-278 *)
OccSortKey(r) == <<StrRank(r.industry_cat_label), r.occupation_esco, 0>>

OccDetailsDisplay(details_df) ==
    LET sorted == StableSort(details_df, OccSortKey)
    IN Tuple([i \in DOMAIN sorted |->
                [Industry |-> shorten_industry_name(sorted[i].industry_cat_label),
                 Occupation |-> sorted[i].occupation_esco]], Len(sorted))

(* A page count that treats a full last page as one page more *)
TotalPagesOffByOne(total_rows) == total_rows \div rows_per_page + 1

(* lines 281-283 (and 355-357 of the skills page) *)
TotalPages(total_rows) == (total_rows - 1) \div rows_per_page + 1

(* A slice that starts one page too far *)
SliceFromNextPage(details_display, page_index) ==
    ILoc(details_display, (page_index + 1) * rows_per_page,
         Min((page_index + 2) * rows_per_page, Len(details_display)))

(* lines 301-310: details_display.iloc[start_idx:end_idx] *)
OccVisibleSlice(details_display, page_index) ==
    LET total_rows == Len(details_display)
        start_idx == page_index * rows_per_page
        end_idx == Min(start_idx + rows_per_page, total_rows)
    IN ILoc(details_display, start_idx, end_idx)

(* DataFrame.to_csv writes a missing value as an empty field *)
CsvField(value) == IF value = NaN THEN "" ELSE value

(* line 313: to_csv(index=False) of the occupations table, the header     *)
(* line with the display labels and then one line per row                  *)
OccToCsv(frame) ==
    Tuple([i \in 1..(Len(frame) + 1) |->
             IF i = 1 THEN <<"Industry", "Occupation (ESCO)">>
             ELSE <<CsvField(frame[i - 1].Industry), frame[i - 1].Occupation>>],
          Len(frame) + 1)

(* A download that exports the rows handed to st.dataframe *)
OccDownloadVisible(details_display, visible) == OccToCsv(visible)

(* lines 312-320: the data of the download button *)
OccDownloadData(details_display, visible) == OccToCsv(details_display)

BlankView(p) ==
    [page |-> p, stopped |-> FALSE, filtered_df |-> <<>>, empty_shown |-> FALSE,
     table_shown |-> FALSE, details_display |-> <<>>, total_rows |-> 0,
     total_pages |-> 0, page_index |-> 0, visible |-> <<>>,
     industry_counts |-> <<>>, preparation_category |-> <<>>, heatmap_data |-> <<>>,
     responder_calls |-> <<>>, csv |-> <<>>]

(* lines 280-320: the pagination of the details table, on the session    *)
(* ss1 that has its page index                                             *)
OccPagination(ss1, details_display, base) ==
    [ss |-> ss1,
     view |-> [base EXCEPT !.table_shown = TRUE,
                           !.details_display = details_display,
                           !.total_rows = Len(details_display),
                           !.total_pages = TotalPages(Len(details_display)),
                           !.page_index = ss1["details_page"],
                           !.visible = OccVisibleSlice(details_display,
                                                       ss1["details_page"]),
                           !.csv = OccDownloadData(details_display,
                                     OccVisibleSlice(details_display,
                                                     ss1["details_page"]))]]

(* lines 256-322: the details expander *)
OccDetails(ss, filtered, base) ==
    LET details_df == IF ss["selected_industry"] # None
                      THEN ByIndustry(filtered, ss["selected_industry"])
                      ELSE filtered
    IN IF details_df # <<>>
       THEN OccPagination(SetDefault(ss, "details_page", 0),
                          OccDetailsDisplay(details_df), base)
       ELSE [ss |-> ss, view |-> [base EXCEPT !.empty_shown = TRUE]]

(* A selector that stores an industry and never clears it *)
StoreIndustryOnly(ss, selected_industry_filter, selected_industry_full) ==
    IF selected_industry_filter # AllIndustries
    THEN Put(ss, "selected_industry", selected_industry_full)
    ELSE ss

(* lines 226-233: the stored industry follows the selectbox *)
StoreIndustry(ss, selected_industry_filter, selected_industry_full) ==
    IF selected_industry_filter # AllIndustries
    THEN Put(ss, "selected_industry", selected_industry_full)
    ELSE Put(ss, "selected_industry", None)

(* A guard that lets every table through *)
NeverEmpty(rows) == FALSE

(* lines 34-36 (124-138 of the skills page): df.empty; the loaders of     *)
(* io.py return an empty frame when the download or the column            *)
(* validation fails.                                                       *)
DfEmpty(rows) == rows = <<>>

(* The result of a script run: the session and the view that its         *)
(* sections r leave, and the state ws of the widgets it rendered           *)
Rendered(r, ws) == [ss |-> r.ss, ws |-> ws, view |-> r.view]

(* lines 199-322: the industry selector and what is drawn below it, on    *)
(* the session ss2 that has its defaults, for the rows filtered of the    *)
(* project and their industry_counts                                       *)
OccIndustrySelector(ss2, ws0, filtered, industry_counts, keep) ==
    LET industry_full_names ==
            <<AllIndustries>> \o [k \in DOMAIN industry_counts |->
                                    industry_counts[k].Industry]
        industry_options ==
            <<AllIndustries>> \o [k \in DOMAIN industry_counts |->
                                    shorten_industry_name(industry_counts[k].Industry)]
        (* lines 200-205: example_df from the stored selection *)
        example0 == IF ss2["selected_industry"] # None
                    THEN ByIndustry(filtered, ss2["selected_industry"])
                    ELSE filtered
        selected_industry_filter ==
            SelectboxValue(ws0, "industry_filter", industry_options, keep)
        ws1 == SelectboxPut(EmptyState, "industry_filter", industry_options,
                            selected_industry_filter)
        (* lines 226-233 *)
        selected_industry_full ==
            industry_full_names[ListIndex(industry_options, selected_industry_filter)]
        ss3 == StoreIndustry(ss2, selected_industry_filter, selected_industry_full)
        example_df == IF selected_industry_filter # AllIndustries
                      THEN ByIndustry(filtered, selected_industry_full)
                      ELSE filtered
        base == [BlankView("occupations") EXCEPT
                    !.filtered_df = filtered,
                    !.industry_counts = industry_counts,
                    !.empty_shown = (industry_counts = <<>>) \/ (example_df = <<>>)]
    IN Rendered(OccDetails(ss3, filtered, base), ws1)

(* lines 160-178: the rows of the selected project and the occupations of *)
(* each of their industries                                                *)
OccIndustryCounts(ss2, ws0, filtered, keep) ==
    OccIndustrySelector(ss2, ws0, filtered, IndustryCounts(filtered), keep)

(* One run of the occupations script in which no button is pressed. *)
OccRun(ss0, ws0, rows, keep) ==
    LET ss1 == init_chat_session_state(ss0)
    IN IF DfEmpty(rows)
       THEN [ss |-> ss1, ws |-> EmptyState,
             view |-> [BlankView("occupations") EXCEPT !.stopped = TRUE]]
       ELSE
       LET ss2 == SetDefault(SetDefault(SetDefault(ss1, "selected_industry", None),
                                        "selected_project", ALL),
                             "project_search", "")
       IN OccIndustryCounts(ss2, ws0, OccFilteredDf(rows, ss2["selected_project"]), keep)

(* lines 369-372 when the chat bar has added to the transcript (result c  *)
(* of render_chat_bottom_bar): st.rerun() starts another run, on the      *)
(* widget state of the run r that it ends.                                 *)
WithCalls(r, calls) == [r EXCEPT !.view.responder_calls = calls]
OccChatBar(r, c, rows) ==
    IF c.rerun
    THEN WithCalls(OccRun(c.ss, r.ws, rows, FALSE), c.calls)
    ELSE WithCalls([ss |-> c.ss, ws |-> r.ws, view |-> r.view], c.calls)

(* lines 348-372 after the run r of the lines before: the pills and the   *)
(* chat bar, which are not reached when the script has stopped.           *)
OccChat(r, rows, pill, prompt) ==
    IF r.view.stopped THEN r
    ELSE OccChatBar(r,
                    render_chat_bottom_bar(IF pill # None
                                           THEN handle_preset_question(r.ss, pill)
                                           ELSE r.ss,
                                           prompt),
                    rows)

(* lines 29-372: one run of the occupations script in which the pill     *)
(* with question pill is pressed (None: neither pill) and st.chat_input   *)
(* returns prompt (None: nothing submitted), followed by the run that     *)
(* st.rerun() starts when the chat bar has added to the transcript.       *)
OccScript(ss0, ws0, rows, pill, prompt) ==
    OccChat(OccRun(ss0, ws0, rows, FALSE), rows, pill, prompt)

----------------------------------------------------------------------------
(* pages/02_Skills_by_Level.py *)

(* lines 142-153 *)
map_preparation_category(job_zone) ==
    IF job_zone = NaNNum THEN "Unknown"
    ELSE IF job_zone <= 2 THEN "Low (1-2)"
    ELSE IF job_zone = 3 THEN "Medium (3)"
    ELSE "High (4-5)"

(* line 241 and 242-246: pd.Categorical(..., categories=prep_order); a    *)
(* value outside the categories becomes NaN and sorts last.                *)
prep_order == <<"Low (1-2)", "Medium (3)", "High (4-5)">>
PrepRank(category) ==
    IF category \in Range(prep_order) THEN ListIndex(prep_order, category)
    ELSE Len(prep_order) + 1

SkillsProjectKey == "project_selector_skills"
SkillsIndustryKey == "industry_selector_skills"
TopFiveKey == "top_five_toggle"
PrepFilterKey == "table_prep_filter"
SkillCatFilterKey == "table_skill_cat_filter"
(* The skills table keeping its page under the occupations table's key *)
SharedPageKey == "details_page"

SkillsPageKey == "skills_details_page"

(* The top-five filter skipped whenever an industry is selected *)
SkillsFilteredDfElif(rows, selected_project, selected_industry, show_top_five) ==
    LET by_project == IF selected_project # ALL
                      THEN SelectSeq(rows, LAMBDA r : r.project_title = selected_project)
                      ELSE rows
    IN IF selected_industry # AllIndustries
       THEN SelectSeq(by_project, LAMBDA r : r.industry_cat_label = selected_industry)
       ELSE IF show_top_five
       THEN SelectSeq(by_project, LAMBDA r : r.top_five = TRUE)
       ELSE by_project

(* lines 214-236: the three filters of the skills page *)
SkillsFilteredDf(rows, selected_project, selected_industry, show_top_five) ==
    LET by_project == IF selected_project # ALL
                      THEN SelectSeq(rows, LAMBDA r : r.project_title = selected_project)
                      ELSE rows
        by_industry == IF selected_industry # AllIndustries
                       THEN SelectSeq(by_project,
                                      LAMBDA r : r.industry_cat_label = selected_industry)
                       ELSE by_project
    IN IF show_top_five
       THEN SelectSeq(by_industry, LAMBDA r : r.top_five = TRUE)
       ELSE by_industry

(* line 168: df['onet_job_zone'].apply(map_preparation_category) *)
PreparationColumn(rows) ==
    Tuple([i \in DOMAIN rows |-> map_preparation_category(rows[i].onet_job_zone)],
          Len(rows))

(* Series.round(1) of n / d, in tenths: to the nearest tenth, a half to   *)
(* the even one                                                            *)
RoundHalfEven(n, d) ==
    LET q == n \div d
        r == n % d
    IN IF 2 * r < d THEN q
       ELSE IF 2 * r > d THEN q + 1
       ELSE IF q % 2 = 0 THEN q ELSE q + 1

(* lines 248-258: the cells of the heatmap, one for every preparation     *)
(* category of prep_order and skill category that have a filtered row, in *)
(* the order of the groupby; count is the number of rows, percentage (in  *)
(* tenths of a percent) its share of the rows of the preparation          *)
(* category.  Rows whose category is not in prep_order are in no group.   *)
HeatmapData(filtered) ==
    LET labels == SortedStrs({filtered[i].skill_category_label : i \in DOMAIN filtered}
                                \ {NaN})
        category == PreparationColumn(filtered)
        grouped == {i \in DOMAIN filtered : /\ category[i] \in Range(prep_order)
                                            /\ filtered[i].skill_category_label # NaN}
        Count(c, l) ==
            Cardinality({i \in grouped :
                            category[i] = c /\ filtered[i].skill_category_label = l})
        counts == Tuple([k \in 1..(Len(prep_order) * Len(labels)) |->
                      LET c == prep_order[((k - 1) \div Len(labels)) + 1]
                          l == labels[((k - 1) % Len(labels)) + 1]
                      IN [preparation_category |-> c, skill_category_label |-> l,
                          count |-> Count(c, l)]],
                        Len(prep_order) * Len(labels))
        observed == SelectSeq(counts, LAMBDA cell : cell.count > 0)
        totals == [c \in Range(prep_order) |->
                      Cardinality({i \in grouped : category[i] = c})]
    IN Tuple([k \in DOMAIN observed |->
                [preparation_category |-> observed[k].preparation_category,
                 skill_category_label |-> observed[k].skill_category_label,
                 count |-> observed[k].count,
                 percentage |->
                     RoundHalfEven(observed[k].count * 1000,
                                   totals[observed[k].preparation_category])]],
             Len(observed))

(* lines 311-313 *)
SkillsSortKey(r) ==
    <<PrepRank(map_preparation_category(r.onet_job_zone)),
      StrRank(r.skill_category_label), r.occupation_esco>>

(* lines 338-351 *)
SkillsDetailsDisplay(details_df_sorted, selected_prep_filter, selected_skill_cat_filter) ==
    LET by_prep == IF selected_prep_filter # AllOption
                   THEN SelectSeq(details_df_sorted,
                                  LAMBDA r : r.onet_job_zone_label = selected_prep_filter)
                   ELSE details_df_sorted
        table_filtered ==
                   IF selected_skill_cat_filter # AllOption
                   THEN SelectSeq(by_prep,
                                  LAMBDA r : r.skill_category_label = selected_skill_cat_filter)
                   ELSE by_prep
    IN Tuple([i \in DOMAIN table_filtered |->
                [Occupation |-> table_filtered[i].occupation_esco,
                 PreparationLevel |-> table_filtered[i].onet_job_zone_label,
                 SkillCategory |-> table_filtered[i].skill_category_label,
                 Skill |-> table_filtered[i].skill_label]], Len(table_filtered))

(* lines 359-364: lazy default, then the reset of an out-of-bounds page *)
SkillsReclamp(ss, total_pages) ==
    LET ss1 == SetDefault(ss, SkillsPageKey, 0)
    IN IF ss1[SkillsPageKey] >= total_pages THEN Put(ss1, SkillsPageKey, 0) ELSE ss1

(* lines 379-388: details_display.iloc[start_idx:end_idx] *)
SkillsVisibleSlice(details_display, page_index) ==
    LET total_rows == Len(details_display)
        start_idx == page_index * rows_per_page
        end_idx == Min(start_idx + rows_per_page, total_rows)
    IN ILoc(details_display, start_idx, end_idx)

(* line 391: to_csv(index=False) of the skills table *)
SkillsToCsv(frame) ==
    Tuple([i \in 1..(Len(frame) + 1) |->
             IF i = 1
             THEN <<"Occupation (ESCO)", "Preparation Level (O*NET)", "Skill Category",
                    "Skill">>
             ELSE <<frame[i - 1].Occupation, CsvField(frame[i - 1].PreparationLevel),
                    CsvField(frame[i - 1].SkillCategory), frame[i - 1].Skill>>],
          Len(frame) + 1)

(* lines 353-400: pagination of the skills table *)
SkillsPagination(ss, details_display, base) ==
    IF details_display # <<>>
    THEN LET total_rows == Len(details_display)
             total_pages == TotalPages(total_rows)
             ss1 == SkillsReclamp(ss, total_pages)
         IN [ss |-> ss1,
             view |-> [base EXCEPT !.table_shown = TRUE,
                                   !.details_display = details_display,
                                   !.total_rows = total_rows,
                                   !.total_pages = total_pages,
                                   !.page_index = ss1[SkillsPageKey],
                                   !.visible = SkillsVisibleSlice(details_display,
                                                                  ss1[SkillsPageKey]),
                                   !.csv = SkillsToCsv(details_display)]]
    ELSE [ss |-> ss, view |-> [base EXCEPT !.empty_shown = TRUE]]

(* lines 307-400: the details table of the rows filtered, below the       *)
(* charts drawn in base; ws1 is the state of the widgets above it          *)
SkillsDetails(ss3, ws0, ws1, filtered, base, keep) ==
    LET prep_levels ==
            <<AllOption>> \o
            SortedStrs({filtered[i].onet_job_zone_label : i \in DOMAIN filtered} \ {NaN})
        selected_prep_filter == SelectboxValue(ws0, PrepFilterKey, prep_levels, keep)
        skill_categories ==
            <<AllOption>> \o
            SortedStrs({filtered[i].skill_category_label : i \in DOMAIN filtered} \ {NaN})
        selected_skill_cat_filter ==
            SelectboxValue(ws0, SkillCatFilterKey, skill_categories, keep)
        ws2 == SelectboxPut(SelectboxPut(ws1,
                   PrepFilterKey, prep_levels, selected_prep_filter),
                   SkillCatFilterKey, skill_categories, selected_skill_cat_filter)
    IN Rendered(SkillsPagination(ss3,
                    SkillsDetailsDisplay(StableSort(filtered, SkillsSortKey),
                                         selected_prep_filter,
                                         selected_skill_cat_filter),
                    base),
                ws2)

(* lines 238-400: the heatmap of the rows filtered and, when there are    *)
(* any, the details table; ss3 and ws1 are the session and the widgets    *)
(* that the filters above leave                                            *)
SkillsCharts(ss3, ws0, ws1, rows, filtered, keep) ==
    IF filtered = <<>>
    THEN [ss |-> ss3, ws |-> ws1,
          view |-> [BlankView("skills") EXCEPT
                       !.filtered_df = filtered,
                       !.preparation_category = PreparationColumn(rows),
                       !.heatmap_data = HeatmapData(filtered),
                       !.empty_shown = TRUE]]
    ELSE SkillsDetails(ss3, ws0, ws1, filtered,
                       [BlankView("skills") EXCEPT
                           !.filtered_df = filtered,
                           !.preparation_category = PreparationColumn(rows),
                           !.heatmap_data = HeatmapData(filtered),
                           !.empty_shown = FALSE],
                       keep)

(* One run of the skills script in which no button is pressed. *)
SkillsRun(ss0, ws0, rows, keep) ==
    IF DfEmpty(rows)
    THEN [ss |-> ss0, ws |-> EmptyState,
          view |-> [BlankView("skills") EXCEPT !.stopped = TRUE]]
    ELSE
    LET ss1 == SetDefault(SetDefault(SetDefault(ss0,
                   "skills_chatbot_output", "Hi, I'm PADdy."),
                   "selected_industry_skills", None),
                   "show_top_five_only", FALSE)
        project_options ==
            <<ALL>> \o SortedStrs({rows[i].project_title : i \in DOMAIN rows})
        selected_project == SelectboxValue(ws0, SkillsProjectKey, project_options, keep)
        industry_options ==
            <<AllIndustries>> \o
            SortedStrs({rows[i].industry_cat_label : i \in DOMAIN rows} \ {NaN})
        selected_industry == SelectboxValue(ws0, SkillsIndustryKey, industry_options, keep)
        ss2 == IF selected_industry # AllIndustries
               THEN Put(ss1, "selected_industry_skills", selected_industry)
               ELSE Put(ss1, "selected_industry_skills", None)
        show_top_five == CheckboxValue(ws0, TopFiveKey, ss2["show_top_five_only"])
        ss3 == Put(ss2, "show_top_five_only", show_top_five)
        ws1 == SelectboxPut(SelectboxPut(SelectboxPut(EmptyState,
                   SkillsProjectKey, project_options, selected_project),
                   SkillsIndustryKey, industry_options, selected_industry),
                   TopFiveKey, <<>>, show_top_five)
    IN SkillsCharts(ss3, ws0, ws1, rows,
                    SkillsFilteredDf(rows, selected_project, selected_industry,
                                     show_top_five),
                    keep)

----------------------------------------------------------------------------
(* Fact tables *)

OccRow(p, e, ind) ==
    [project_title |-> p, esco_id |-> e, occupation_esco |-> 100 - e,
     industry_cat_label |-> ind]

(* Project P1 has occupations 1..n1, every third one in mining; project   *)
(* P2 has n2 occupations, none in mining, the first two shared with P1.   *)
OccTable(n1, n2) ==
    Tuple([i \in 1..(n1 + n2) |->
             IF i <= n1
             THEN OccRow("P1", i, IF i % 3 = 0 THEN Mining ELSE Energy)
             ELSE OccRow("P2", i - 2, Energy)], n1 + n2)

ZoneLabel(zone) == IF zone \in 1..5
                   THEN <<"Zone 1", "Zone 2", "Zone 3", "Zone 4", "Zone 5">>[zone]
                   ELSE NaN

SkillRow(p, occ, zone, cat, skill, ind, top) ==
    [project_title |-> p, occupation_esco |-> 100 - occ, onet_job_zone |-> zone,
     onet_job_zone_label |-> ZoneLabel(zone), skill_category_label |-> cat,
     skill_label |-> skill, industry_cat_label |-> ind, top_five |-> top]

(* Project P1 has n1 skill rows, two per occupation, in zones 2 and 4,    *)
(* every third occupation in mining; project P2 has n2 rows, one per      *)
(* occupation, all in zone 2 and none in mining.                           *)
SkillTable(n1, n2) ==
    Tuple([i \in 1..(n1 + n2) |->
             IF i <= n1
             THEN LET occ == (i + 1) \div 2
                  IN SkillRow("P1", occ, IF occ % 2 = 0 THEN 2 ELSE 4,
                              IF i % 2 = 0 THEN "knowledge" ELSE "skills", i,
                              IF occ % 3 = 0 THEN Mining ELSE Energy, i % 4 = 1)
             ELSE SkillRow("P2", i - n1, 2, "skills", i, Energy, i % 2 = 0)],
          n1 + n2)

(* Every sequence of 1..n elements of S *)
SeqsUpTo(S, n) == UNION {[1..k -> S] : k \in 1..n}

SmallOccRows ==
    {OccRow(p, e, ind) : p \in {"P1", "P2"}, e \in {1, 2},
                       ind \in {Energy, Mining, NaN}}

SmallSkillRows ==
    {SkillRow(p, 1, 2, "skills", 1, ind, top) :
        p \in {"P1", "P2"}, ind \in {Energy, Mining}, top \in BOOLEAN}

(* Row order is immaterial to the filters of the skills page (each keeps  *)
(* or drops a row by its own fields), so one table stands for all its     *)
(* permutations.                                                           *)
SkillRowRank(r) ==
    (IF r.project_title = "P1" THEN 0 ELSE 4)
    + (IF r.industry_cat_label = Energy THEN 0 ELSE 2)
    + (IF r.top_five THEN 1 ELSE 0)

SmallSkillTables ==
    {t \in SeqsUpTo(SmallSkillRows, MaxSmallRows) :
        \A i \in 1..(Len(t) - 1) : SkillRowRank(t[i]) <= SkillRowRank(t[i + 1])}

(* The values of onet_job_zone: missing, or an ordinal *)
JobZones == {NaNNum} \cup 0..MaxJobZone

SkillCategoryLabels ==
    <<"arts and humanities", "business", "education", "engineering", "health",
      "knowledge", "services", "skills">>

(* n skill rows of job zone zone, one in each of the first n skill        *)
(* categories, every other one a top-five skill; with medium, one more    *)
(* row of zone 3 in the first category.                                    *)
HeatmapTable(n, zone, medium) ==
    Tuple([k \in 1..n |->
             SkillRow("P1", k, zone, SkillCategoryLabels[k], k, Energy, k % 2 = 1)], n)
    \o (IF medium
        THEN <<SkillRow("P1", 1, 3, SkillCategoryLabels[1], n + 1, Energy, TRUE)>>
        ELSE <<>>)

HeatmapTables ==
    {HeatmapTable(n, zone, medium) :
        n \in 1..MaxSkillCategories, zone \in JobZones, medium \in BOOLEAN}

Fresh ==
    /\ page = "none"
    /\ session_state = EmptyState
    /\ widget_state = EmptyState
    /\ view = BlankView("none")

(* A new session over the loaded fact tables *)
Init ==
    /\ df = OccTable(MaxP1Rows, MaxP2Rows)
    /\ skill_df = SkillTable(MaxP1Rows, MaxP2Rows)
    /\ argsort_ties \in {"stable", "reversed"}
    /\ on_message_callback = PageCallback
    /\ Fresh

(* A new session over every small occupation table, or every small skill  *)
(* table, the other table having failed to load (io.py returns an empty   *)
(* frame).  Only the occupations page sorts with quicksort, and only     *)
(* when its table has loaded.                                              *)
InitFilter ==
    /\ \/ /\ df \in SeqsUpTo(SmallOccRows, MaxSmallRows)
          /\ skill_df = <<>>
          /\ argsort_ties \in {"stable", "reversed"}
       \/ /\ df = <<>>
          /\ skill_df \in SmallSkillTables
          /\ argsort_ties = "stable"
    /\ on_message_callback = PageCallback
    /\ Fresh

(* A new session over a skill table of one job zone and several skill    *)
(* categories; the occupation table has failed to load.                    *)
InitHeatmap ==
    /\ df = <<>>
    /\ skill_df \in HeatmapTables
    /\ argsort_ties = "stable"
    /\ on_message_callback = PageCallback
    /\ Fresh

(* A new session over a small occupation table; the skill table has      *)
(* failed to load.                                                         *)
InitChat ==
    /\ df = OccTable(2, 1)
    /\ skill_df = <<>>
    /\ argsort_ties = "stable"
    /\ on_message_callback = PageCallback
    /\ Fresh

(* A new session over tables of two pages each *)
InitSession ==
    /\ df = OccTable(11, 1)
    /\ skill_df = SkillTable(12, 1)
    /\ argsort_ties = "stable"
    /\ on_message_callback = PageCallback
    /\ Fresh

(* The same session with the chat bar given any callback *)
InitCallback ==
    /\ df = OccTable(2, 1)
    /\ skill_df = <<>>
    /\ argsort_ties = "stable"
    /\ on_message_callback \in Callbacks
    /\ Fresh

----------------------------------------------------------------------------
(* Interactions *)

Commit(r, p) ==
    /\ session_state' = r.ss
    /\ widget_state' = r.ws
    /\ view' = r.view
    /\ page' = p
    /\ UNCHANGED <<df, skill_df, argsort_ties, on_message_callback>>

(* Script runs of the two pages.  An interaction that changes no input   *)
(* of a selectbox's options (or finds no widget state at all) runs the    *)
(* script with the options of the last run, where every build keeps the   *)
(* selection: SelectboxValue does not consult keep.                        *)
Occupations(ss, ws) == OccScript(ss, ws, df, None, None)
Skills(ss, ws) == SkillsRun(ss, ws, skill_df, FALSE)

(* The user picks entry v of the selectbox with the given key. *)
Offered(key, v) ==
    /\ Has(widget_state, key)
    /\ v \in Range(widget_state[key].options)
    /\ v # widget_state[key].value
Picked(key, v) == SelectboxPut(widget_state, key, widget_state[key].options, v)

Labels == Range(Collation) \cup {ALL, AllIndustries, AllOption, MiningShort}

(* The user opens the occupations page: the widgets of the page that was  *)
(* shown are no longer rendered and lose their state.                      *)
OpenOccupations ==
    /\ page # "occupations"
    /\ Commit(Occupations(session_state, EmptyState), "occupations")

(* lines 65-69, 98-132: a project button, select_project, st.rerun() *)
select_project(ss, project_name) ==
    Put(Put(ss, "selected_project", project_name), "project_search", "")

ProjectOptions(rows) == {ALL} \cup {rows[i].project_title : i \in DOMAIN rows}

SelectProject ==
    /\ page = "occupations" /\ ~view.stopped
    /\ \E p \in ProjectOptions(df) : \E keep \in BOOLEAN :
          Commit(OccRun(select_project(session_state, p), widget_state, df, keep),
                 "occupations")

(* lines 217-233: the user picks an entry of the industry selectbox *)
SelectIndustry ==
    /\ page = "occupations" /\ ~view.stopped
    /\ \E v \in Labels :
          /\ Offered("industry_filter", v)
          /\ Commit(Occupations(session_state, Picked("industry_filter", v)),
                    "occupations")

(* A button that is never disabled *)
NeverDisabled == FALSE

(* lines 291-293 *)
OccPrevDisabled == session_state["details_page"] = 0
OccPrevious ==
    /\ page = "occupations" /\ view.table_shown
    /\ ~OccPrevDisabled
    /\ Commit(Occupations(Put(session_state, "details_page",
                              session_state["details_page"] - 1),
                          widget_state),
              "occupations")

(* lines 297-299 *)
OccNextDisabled == session_state["details_page"] >= view.total_pages - 1
OccNext ==
    /\ page = "occupations" /\ view.table_shown
    /\ ~OccNextDisabled
    /\ Commit(Occupations(Put(session_state, "details_page",
                              session_state["details_page"] + 1),
                          widget_state),
              "occupations")

(* Any interaction that changes no input (opening an expander, the        *)
(* project-info dialog): the script runs again.                            *)
OccRerun ==
    /\ page = "occupations"
    /\ Commit(Occupations(session_state, widget_state), "occupations")

(* Texts typed into the chat input *)
ChatTexts ==
    {PillIndustries, PillOtherData,
     <<"a", "s", "d", "f", "1", "2", "3">>,
     <<"M", "O", "S", "T", " ", "I", "N", "D", "U", "S", "T", "R", "I",
       "E", "S">>,
     <<"i", "n", "d", "u", "s", "t", "r", "i", "e", "s", " ", "m", "o",
       "s", "t", " ", "d", "a", "t", "a">>,
     <<"i", "n", "d", "u", "s", "t", "r", "i", "e", "s">>,
     <<"E", "x", "a", "m", "i", "n", "e">>,
     <<"m", "o", "s", "t", " ", "d", "a", "t", "a">>}

ChatRendered ==
    /\ page = "occupations" /\ ~view.stopped
    /\ Len(session_state["messages"]) + 2 <= MaxMessages

(* chat.py lines 113/130 and 134-140: a text is submitted. *)
SubmitChat ==
    /\ ChatRendered
    /\ \E text \in ChatTexts :
          Commit(OccScript(session_state, widget_state, df, None, text), "occupations")

(* pages/01 lines 348-356: a pill is pressed. *)
ClickPill ==
    /\ ChatRendered
    /\ \E question \in PillQuestions :
          Commit(OccScript(session_state, widget_state, df, question, None),
                 "occupations")

(* chat.py lines 110-126: the toggle, shown once there is a message; its  *)
(* on_click callback runs before the script.                               *)
ToggleChat ==
    /\ page = "occupations" /\ ~view.stopped
    /\ session_state["messages"] # <<>>
    /\ Commit(Occupations(toggle_chat(session_state), widget_state), "occupations")

(* The user opens the skills page. *)
OpenSkills ==
    /\ page # "skills"
    /\ Commit(Skills(session_state, EmptyState), "skills")

(* lines 193-199 *)
SelectProjectSkills ==
    /\ page = "skills" /\ ~view.stopped
    /\ \E v \in Labels :
          /\ Offered(SkillsProjectKey, v)
          /\ \E keep \in BOOLEAN :
                Commit(SkillsRun(session_state, Picked(SkillsProjectKey, v),
                                 skill_df, keep),
                       "skills")

(* lines 206-212 *)
SelectIndustrySkills ==
    /\ page = "skills" /\ ~view.stopped
    /\ \E v \in Labels :
          /\ Offered(SkillsIndustryKey, v)
          /\ \E keep \in BOOLEAN :
                Commit(SkillsRun(session_state, Picked(SkillsIndustryKey, v),
                                 skill_df, keep),
                       "skills")

(* lines 228-233 *)
ToggleTopFive ==
    /\ page = "skills" /\ ~view.stopped
    /\ \E keep \in BOOLEAN :
          Commit(SkillsRun(session_state,
                           SelectboxPut(widget_state, TopFiveKey, <<>>,
                                        ~widget_state[TopFiveKey].value),
                           skill_df, keep),
                 "skills")

(* lines 321-326 *)
SelectPrepFilter ==
    /\ page = "skills" /\ ~view.stopped
    /\ \E v \in Labels :
          /\ Offered(PrepFilterKey, v)
          /\ Commit(Skills(session_state, Picked(PrepFilterKey, v)), "skills")

(* lines 330-335 *)
SelectSkillCatFilter ==
    /\ page = "skills" /\ ~view.stopped
    /\ \E v \in Labels :
          /\ Offered(SkillCatFilterKey, v)
          /\ Commit(Skills(session_state, Picked(SkillCatFilterKey, v)), "skills")

(* A Previous button of the skills table that is enabled on every page *)
PrevAlwaysEnabled == FALSE

(* lines 369-371 *)
SkillsPrevDisabled == session_state[SkillsPageKey] = 0
SkillsPrevious ==
    /\ page = "skills" /\ view.table_shown
    /\ ~SkillsPrevDisabled
    /\ Commit(Skills(Put(session_state, SkillsPageKey,
                         session_state[SkillsPageKey] - 1),
                     widget_state),
              "skills")

(* lines 375-377 *)
SkillsNextDisabled == session_state[SkillsPageKey] >= view.total_pages - 1
SkillsNext ==
    /\ page = "skills" /\ view.table_shown
    /\ ~SkillsNextDisabled
    /\ Commit(Skills(Put(session_state, SkillsPageKey,
                         session_state[SkillsPageKey] + 1),
                     widget_state),
              "skills")

SkillsRerun ==
    /\ page = "skills"
    /\ Commit(Skills(session_state, widget_state), "skills")

Next ==
    \/ OpenOccupations
    \/ SelectProject
    \/ SelectIndustry
    \/ OccPrevious
    \/ OccNext
    \/ OccRerun
    \/ OpenSkills
    \/ SelectProjectSkills
    \/ SelectIndustrySkills
    \/ ToggleTopFive
    \/ SelectPrepFilter
    \/ SelectSkillCatFilter
    \/ SkillsPrevious
    \/ SkillsNext
    \/ SkillsRerun

(* The interactions that tables of at most one page allow *)
NextFilter ==
    \/ OpenOccupations
    \/ SelectProject
    \/ SelectIndustry
    \/ OccRerun
    \/ OpenSkills
    \/ SelectProjectSkills
    \/ SelectIndustrySkills
    \/ ToggleTopFive
    \/ SelectPrepFilter
    \/ SelectSkillCatFilter
    \/ SkillsRerun

NextHeatmap ==
    \/ OpenOccupations
    \/ OpenSkills
    \/ ToggleTopFive
    \/ SkillsRerun

NextChat ==
    \/ OpenOccupations
    \/ OpenSkills
    \/ SelectProject
    \/ OccRerun
    \/ SubmitChat
    \/ ClickPill
    \/ ToggleChat

(* Navigation, selection and chat in one session *)
NextSession ==
    \/ OpenOccupations
    \/ OpenSkills
    \/ SelectProject
    \/ SelectIndustry
    \/ OccPrevious
    \/ OccNext
    \/ SubmitChat
    \/ ClickPill
    \/ ToggleChat
    \/ ToggleTopFive
    \/ SkillsPrevious
    \/ SkillsNext

Spec == Init /\ [][Next]_vars
SpecSession == InitSession /\ [][NextSession]_vars
SpecChat == InitChat /\ [][NextChat]_vars
SpecCallback == InitCallback /\ [][NextChat]_vars
SpecHeatmap == InitHeatmap /\ [][NextHeatmap]_vars

SpecFilter == InitFilter /\ [][NextFilter]_vars

----------------------------------------------------------------------------
(* Properties *)

CeilDiv(a, b) == (a + b - 1) \div b
Present(r) == r.page # "none" /\ ~r.stopped
InBounds(r) == r.table_shown /\ 0 <= r.page_index /\ r.page_index < r.total_pages
PageIndex(ss, key) == IF Has(ss, key) THEN ss[key] ELSE -1
Value(ws, key) == IF Has(ws, key) THEN ws[key].value ELSE None

RECURSIVE Pages(_, _, _, _)
Pages(Slice(_, _), rows, p, total_pages) ==
    IF p >= total_pages THEN <<>>
    ELSE Slice(rows, p) \o Pages(Slice, rows, p + 1, total_pages)

(* C1: every render that displays a detail table shows it with            *)
(* 0 <= page_index < total_pages.                                          *)
C1_PageIndexInBounds == view.table_shown => InBounds(view)

(* C2: when a detail table stands at page_index 3 and a filter change     *)
(* shrinks it to at most 3 pages, the next render shows page_index 0.     *)
C2_ReclampToFirstPage ==
    [][(/\ view.table_shown /\ view.page_index = 3
        /\ view'.page = view.page /\ view'.table_shown
        /\ view'.total_rows < view.total_rows /\ view'.total_pages <= 3)
       => view'.page_index = 0]_vars

(* C3 as stated: at the row count of every render, zero included, the     *)
(* page-count expression of the detail tables gives                        *)
(* max(1, ceil(total_rows / page_size)).                                   *)
C3_PageCountAlways ==
    Present(view) =>
        TotalPages(view.total_rows) = Max(1, CeilDiv(view.total_rows, rows_per_page))

(* C3 as amended: a detail table that is rendered has at least one row    *)
(* and the page count ceil(total_rows / 10) >= 1; one with no rows is     *)
(* replaced by a message and has no page count.                            *)
C3_PageCountWhenShown ==
    /\ view.table_shown =>
          /\ view.total_rows >= 1
          /\ view.total_pages = Max(1, CeilDiv(view.total_rows, rows_per_page))
    /\ (Present(view) /\ view.total_rows = 0) =>
          ~view.table_shown /\ view.empty_shown /\ view.total_pages = 0

C3_FullLastPage ==
    view.table_shown /\ view.total_rows = rows_per_page /\ view.total_pages = 1

(* C4: at an in-bounds page the rows displayed are                        *)
(* rows[page_index*10 : min((page_index+1)*10, total_rows)], and the      *)
(* pages 0..total_pages-1 together show every row once, in order.         *)
C4_VisibleSlice ==
    InBounds(view) =>
       /\ view.visible = SubSeq(view.details_display,
                                view.page_index * 10 + 1,
                                Min((view.page_index + 1) * 10, view.total_rows))
       /\ view.page = "occupations" =>
             Pages(OccVisibleSlice, view.details_display, 0, view.total_pages)
                = view.details_display
       /\ view.page = "skills" =>
             Pages(SkillsVisibleSlice, view.details_display, 0, view.total_pages)
                = view.details_display

C4_ScenarioC ==
    /\ view.table_shown /\ view.total_rows = 23 /\ view.total_pages = 3
    /\ view.page_index = 2 /\ Len(view.visible) = 3
    /\ view.visible = SubSeq(view.details_display, 21, 23)

(* Steps that change a stored page index: every Previous and Next is      *)
(* among them.                                                             *)
PageIndexMoved ==
    \E k \in {"details_page", SkillsPageKey} \cap DOMAIN session_state :
       session_state'[k] # session_state[k]

(* C5: Previous is not available at page_index 0 and Next is not at       *)
(* total_pages - 1; from any other in-bounds page Previous shows the page *)
(* before and Next the page after.                                         *)
C5_PreviousNext ==
    [][/\ (InBounds(view) /\ PageIndexMoved /\ (OccPrevious \/ SkillsPrevious)) =>
             /\ view.page_index # 0
             /\ view'.table_shown /\ view'.page_index = view.page_index - 1
       /\ (InBounds(view) /\ PageIndexMoved /\ (OccNext \/ SkillsNext)) =>
             /\ view.page_index # view.total_pages - 1
             /\ view'.table_shown /\ view'.page_index = view.page_index + 1]_vars

C5_LastPageAfterNext ==
    /\ view.page = "skills" /\ InBounds(view)
    /\ view.total_pages > 1 /\ view.page_index = view.total_pages - 1

(* C6: a step of the occupations page leaves skills_details_page as it    *)
(* was, and a step of the skills page leaves details_page as it was.      *)
C6_IndependentPageIndices ==
    [][/\ page' = "occupations" =>
             PageIndex(session_state', "skills_details_page")
                = PageIndex(session_state, "skills_details_page")
       /\ page' = "skills" =>
             PageIndex(session_state', "details_page")
                = PageIndex(session_state, "details_page")]_vars

C6_BothPaged ==
    /\ PageIndex(session_state, "details_page") = 2
    /\ PageIndex(session_state, "skills_details_page") = 1

(* C7: when an industry is selected under project "ALL" and the project   *)
(* is then changed to one with no row of that industry, the industry      *)
(* selection is back at "All Industries"/None and no empty-result message *)
(* is shown.                                                               *)
NoRows(rows, project, industry) ==
    \A i \in DOMAIN rows :
        ~(rows[i].project_title = project /\ rows[i].industry_cat_label = industry)

C7_StaleIndustryResets ==
    [][/\ (/\ page = "occupations" /\ page' = "occupations"
           /\ session_state["selected_project"] = ALL
           /\ session_state["selected_industry"] # None
           /\ session_state'["selected_project"] # ALL
           /\ NoRows(df, session_state'["selected_project"],
                     session_state["selected_industry"]))
          => session_state'["selected_industry"] = None /\ ~view'.empty_shown
       /\ (/\ page = "skills" /\ page' = "skills"
           /\ Value(widget_state, SkillsProjectKey) = ALL
           /\ Value(widget_state, SkillsIndustryKey) # AllIndustries
           /\ Value(widget_state', SkillsProjectKey) # ALL
           /\ NoRows(skill_df, Value(widget_state', SkillsProjectKey),
                     Value(widget_state, SkillsIndustryKey)))
          => /\ Value(widget_state', SkillsIndustryKey) = AllIndustries
             /\ session_state'["selected_industry_skills"] = None
             /\ ~view'.empty_shown]_vars

(* C8: the rows of the skills page are exactly the skill-fact rows that   *)
(* pass the project, industry and top-five predicates, in whatever order  *)
(* the three are applied.                                                  *)
C8_ConjunctiveFilter ==
    (view.page = "skills" /\ ~view.stopped) =>
       LET project == widget_state[SkillsProjectKey].value
           industry == widget_state[SkillsIndustryKey].value
           top == widget_state[TopFiveKey].value
           InProject(r) == project = ALL \/ r.project_title = project
           InIndustry(r) == industry = AllIndustries \/ r.industry_cat_label = industry
           InTop(r) == ~top \/ r.top_five = TRUE
       IN /\ view.filtered_df =
                SelectSeq(skill_df, LAMBDA r : InProject(r) /\ InIndustry(r) /\ InTop(r))
          /\ view.filtered_df =
                SelectSeq(SelectSeq(SelectSeq(skill_df, InTop), InIndustry), InProject)
          /\ session_state["show_top_five_only"] = top

C8_AllThreeFilters ==
    /\ view.page = "skills" /\ ~view.stopped
    /\ widget_state[SkillsProjectKey].value # ALL
    /\ widget_state[SkillsIndustryKey].value # AllIndustries
    /\ widget_state[TopFiveKey].value
    /\ view.filtered_df # <<>>
    /\ Len(view.filtered_df) < Len(skill_df)

(* C9: under project "ALL" the occupations page keeps exactly one row,    *)
(* an unmodified row of the fact table, for every esco_id of the table;   *)
(* under a specific project it keeps exactly the rows of that project.    *)
C9_ProjectFilter ==
    (view.page = "occupations" /\ ~view.stopped) =>
       LET f == view.filtered_df
           ids == {df[i].esco_id : i \in DOMAIN df}
       IN IF session_state["selected_project"] = ALL
          THEN /\ Len(f) = Cardinality(ids)
               /\ \A e \in ids : Cardinality({i \in DOMAIN f : f[i].esco_id = e}) = 1
               /\ \A i \in DOMAIN f : f[i] \in Range(df)
          ELSE f = SelectSeq(df, LAMBDA r :
                                r.project_title = session_state["selected_project"])

C9_Deduplicated ==
    /\ view.page = "occupations" /\ ~view.stopped
    /\ session_state["selected_project"] = ALL
    /\ Len(view.filtered_df) < Len(df)

(* C10: a render that follows another on the same page with the same      *)
(* filter selection shows the same filtered rows, the same representative *)
(* row of every occupation included.                                       *)
Selection ==
    IF page = "occupations"
    THEN <<session_state["selected_project"], session_state["selected_industry"]>>
    ELSE <<Value(widget_state, SkillsProjectKey), Value(widget_state, SkillsIndustryKey),
           Value(widget_state, TopFiveKey)>>

RECURSIVE SumJobCounts(_)
SumJobCounts(counts) ==
    IF counts = <<>> THEN 0 ELSE Head(counts).JobCount + SumJobCounts(Tail(counts))

OccShown == view.page = "occupations" /\ ~view.stopped
EscoIds(rows) == {rows[i].esco_id : i \in DOMAIN rows}

(* C11: on every render of the occupations page the job counts of the     *)
(* donut chart sum to the number of distinct esco_id of the filtered rows, *)
(* also when an occupation has rows in two industries or a row has no     *)
(* industry label.                                                         *)
C11_CountsSumToOccupations ==
    OccShown => SumJobCounts(view.industry_counts) = Cardinality(EscoIds(view.filtered_df))

(* C12: the chart has one entry for every industry label of the filtered  *)
(* rows, and its count is the number of distinct esco_id among the rows   *)
(* of that industry, however many rows repeat an occupation.               *)
C12_DistinctOccupationsPerIndustry ==
    OccShown =>
       LET f == view.filtered_df
           c == view.industry_counts
           RowsOf(ind) == {i \in DOMAIN f : f[i].industry_cat_label = ind}
       IN /\ {c[k].Industry : k \in DOMAIN c}
                = {f[i].industry_cat_label : i \in DOMAIN f} \ {NaN}
          /\ \A k, l \in DOMAIN c : c[k].Industry = c[l].Industry => k = l
          /\ \A k \in DOMAIN c :
                c[k].JobCount = Cardinality({f[i].esco_id : i \in RowsOf(c[k].Industry)})

C12_RepeatedOccupation ==
    /\ OccShown
    /\ \E k \in DOMAIN view.industry_counts :
          view.industry_counts[k].JobCount
             < Cardinality({i \in DOMAIN view.filtered_df :
                   view.filtered_df[i].industry_cat_label
                      = view.industry_counts[k].Industry})

(* C13: the chart's entries are in descending order of count, and entries *)
(* of equal count are in ascending order of industry label.                *)
C13_CountThenLabelOrder ==
    OccShown =>
       \A k, l \in DOMAIN view.industry_counts :
          k < l =>
             LET a == view.industry_counts[k]
                 b == view.industry_counts[l]
             IN \/ a.JobCount > b.JobCount
                \/ a.JobCount = b.JobCount /\ StrRank(a.Industry) < StrRank(b.Industry)

SkillsShown == view.page = "skills" /\ ~view.stopped

RECURSIVE SumPercentages(_)
SumPercentages(cells) ==
    IF cells = <<>> THEN 0 ELSE Head(cells).percentage + SumPercentages(Tail(cells))

Column(c) == SelectSeq(view.heatmap_data, LAMBDA cell : cell.preparation_category = c)

(* C14: in every preparation-category column of the heatmap that has a    *)
(* row, the percentages, each rounded to one decimal, sum to between 99.9 *)
(* and 100.1 (999 to 1001 tenths), whatever the number of skill           *)
(* categories.                                                             *)
C14_ColumnSumsTo100 ==
    SkillsShown =>
       \A c \in Range(prep_order) :
          Column(c) # <<>> =>
             /\ SumPercentages(Column(c)) >= 999
             /\ SumPercentages(Column(c)) <= 1001

(* C15: every skill row has one preparation category: Low for job zones   *)
(* 1 and 2, Medium for 3, High for 4 and 5, and Unknown for a missing     *)
(* zone and for every zone outside 1..5.                                   *)
C15_PreparationCategory ==
    SkillsShown =>
       /\ Len(view.preparation_category) = Len(skill_df)
       /\ \A i \in DOMAIN skill_df :
             view.preparation_category[i] =
                (IF skill_df[i].onet_job_zone \in {1, 2} THEN "Low (1-2)"
                 ELSE IF skill_df[i].onet_job_zone = 3 THEN "Medium (3)"
                 ELSE IF skill_df[i].onet_job_zone \in {4, 5} THEN "High (4-5)"
                 ELSE "Unknown")

Messages == IF Has(session_state, "messages") THEN session_state["messages"] ELSE <<>>
Pending ==
    IF Has(session_state, "pending_prompt") THEN session_state["pending_prompt"] ELSE None
Asdf123 == <<"a", "s", "d", "f", "1", "2", "3">>

(* C16: between interactions the transcript is a sequence of (user,       *)
(* assistant) pairs: its length is even, its odd entries are the user's   *)
(* and its even entries the assistant's.                                   *)
C16_UserAssistantPairs ==
    /\ Len(Messages) % 2 = 0
    /\ \A i \in DOMAIN Messages :
          Messages[i].role = (IF i % 2 = 1 THEN "user" ELSE "assistant")

C16_TwoExchanges ==
    /\ Len(Messages) = 4
    /\ Messages[1].content \in PillQuestions
    /\ Messages[3].role = "user" /\ Messages[4].role = "assistant"

(* C17: the answer to a user entry is the industry reply when the entry,  *)
(* in lower case, contains "industries" and "most"; otherwise the         *)
(* other-data reply when it contains "data" or "examine"; otherwise the   *)
(* fallback template around the entry exactly as typed.                    *)
C17_FirstMatchWins ==
    \A i \in DOMAIN Messages :
       i % 2 = 1 /\ i + 1 <= Len(Messages) =>
          LET text == Messages[i].content
              answer == Messages[i + 1].content
              Mentions(word) == Contains(Lower(text), word)
              industry == /\ Mentions(<<"i", "n", "d", "u", "s", "t", "r", "i", "e", "s">>)
                          /\ Mentions(<<"m", "o", "s", "t">>)
              other == \/ Mentions(<<"d", "a", "t", "a">>)
                       \/ Mentions(<<"e", "x", "a", "m", "i", "n", "e">>)
          IN /\ industry => answer = IndustryResponse
             /\ (~industry /\ other) => answer = OtherDataResponse
             /\ (~industry /\ ~other) => answer = FallbackPrefix \o text \o FallbackSuffix

C17_ScenarioE ==
    /\ Len(Messages) = 4
    /\ Messages[1].content = PillIndustries /\ Messages[2].content = IndustryResponse
    /\ Messages[3].content = Asdf123
    /\ Messages[4].content = FallbackPrefix \o Asdf123 \o FallbackSuffix

(* C18: the interaction that answers a pill does not hand the pill's      *)
(* question to the keyword-matching responder.                             *)
C18_PillBypassesResponder ==
    [][ClickPill => view'.responder_calls = <<>>]_vars

(* C19: an interaction, an error of the responder callback included,     *)
(* leaves the transcript as it was or extends it by one whole (user,      *)
(* assistant) pair, leaves no pending prompt behind, and a change of      *)
(* project comes with the cleared project search.                          *)
C19_AllOrNothing ==
    [][/\ \/ Messages' = Messages
          \/ /\ Len(Messages') = Len(Messages) + 2
             /\ SubSeq(Messages', 1, Len(Messages)) = Messages
             /\ Messages'[Len(Messages) + 1].role = "user"
             /\ Messages'[Len(Messages) + 2].role = "assistant"
       /\ Pending' = None
       /\ (/\ Has(session_state, "selected_project")
           /\ session_state'["selected_project"] # session_state["selected_project"])
          => session_state'["project_search"] = ""]_vars

(* C20: the exported CSV has, after its header line, one line for every   *)
(* row of the detail table in display order, whatever the page shown, and *)
(* a step that only moves to another page of the same table leaves the    *)
(* exported lines as they were.                                            *)
C20_CsvIsWholeTable ==
    [][/\ view'.table_shown =>
            /\ Len(view'.csv) = Len(view'.details_display) + 1
            /\ \A i \in DOMAIN view'.details_display :
                  LET row == view'.details_display[i]
                      line == view'.csv[i + 1]
                  IN IF view'.page = "occupations"
                     THEN /\ line[2] = row.Occupation
                          /\ row.Industry # NaN => line[1] = row.Industry
                     ELSE line[1] = row.Occupation /\ line[4] = row.Skill
       /\ (/\ view'.page = view.page
           /\ view'.details_display = view.details_display
           /\ view'.page_index # view.page_index) => view'.csv = view.csv]_vars

C20_ExportFromLaterPage ==
    /\ view.table_shown /\ view.page_index > 0 /\ view.visible # <<>>
    /\ Len(view.csv) = view.total_rows + 1
    /\ view.total_rows > Len(view.visible)

FilterAndPageKeys ==
    {"selected_project", "selected_industry", "project_search", "selected_industry_skills",
     "show_top_five_only", "details_page", SkillsPageKey}
FilterAndPageState(ss) == [k \in FilterAndPageKeys \cap DOMAIN ss |-> ss[k]]

(* C21: a render of a page whose fact table is empty stops at the error:  *)
(* nothing is filtered, aggregated or paginated, and the stored filter    *)
(* selection and page indices are what they were before the render.       *)
C21_LoadFailureStops ==
    [][(\/ page' = "occupations" /\ df = <<>>
        \/ page' = "skills" /\ skill_df = <<>>) =>
          /\ view' = [BlankView(page') EXCEPT !.stopped = TRUE]
          /\ FilterAndPageState(session_state') = FilterAndPageState(session_state)]_vars

C21_StoppedWithSelection ==
    /\ view.stopped /\ page = "skills"
    /\ Has(session_state, "selected_project") /\ session_state["selected_project"] # ALL
    /\ Has(session_state, "details_page")

ColumnRank(category) ==
    IF category = "Low (1-2)" THEN 1
    ELSE IF category = "Medium (3)" THEN 2
    ELSE IF category = "High (4-5)" THEN 3
    ELSE 4

UnknownRows ==
    {i \in DOMAIN view.filtered_df :
        map_preparation_category(view.filtered_df[i].onet_job_zone) = "Unknown"}

(* C22: the heatmap's cells come column by column in the order Low,       *)
(* Medium, High, Unknown, and when a filtered skill row has the Unknown    *)
(* category the grid has an Unknown column that counts all such rows.      *)
C22_UnknownColumnCounted ==
    SkillsShown =>
       /\ \A i, j \in DOMAIN view.heatmap_data :
             i < j => ColumnRank(view.heatmap_data[i].preparation_category)
                      <= ColumnRank(view.heatmap_data[j].preparation_category)
       /\ UnknownRows # {} =>
             /\ Column("Unknown") # <<>>
             /\ \A k \in DOMAIN Column("Unknown") :
                   Column("Unknown")[k].count =
                      Cardinality({i \in UnknownRows :
                                      view.filtered_df[i].skill_category_label =
                                         Column("Unknown")[k].skill_category_label})

IsPrefix(s, t) == Len(s) <= Len(t) /\ SubSeq(t, 1, Len(s)) = s

(* C23: the transcript is append-only: in every step (submission, pill,   *)
(* toggle, re-render, project change, page switch) the transcript before  *)
(* the step is a prefix of the transcript after it.                        *)
C23_AppendOnly ==
    [][IsPrefix(Messages, Messages')]_vars

C23_KeptWhileHidden ==
    /\ Len(Messages) = 4
    /\ ~session_state["show_chat"]
    /\ page = "skills"

Persists(K) ==
    \A k \in K \cap DOMAIN session_state :
       Has(session_state', k) /\ session_state'[k] = session_state[k]

(* C24: when the user opens the other page, the initialisation runs on a  *)
(* session that has its keys: every key stays and every stored value is   *)
(* what the earlier interactions left.                                     *)
C24_LazyDefaults ==
    [][page' # page => Persists(DOMAIN session_state)]_vars

SelectionKeys ==
    {"selected_project", "selected_industry", "selected_industry_skills",
     "show_top_five_only"}
SelectionWidgets == {"industry_filter", SkillsProjectKey, SkillsIndustryKey, TopFiveKey}

(* Steps that change the transcript or its visibility: every submission,  *)
(* pill and toggle is among them.                                          *)
ChatMoved ==
    /\ Has(session_state, "messages")
    /\ \/ Messages' # Messages
       \/ session_state'["show_chat"] # session_state["show_chat"]

(* C25: the selected project is "ALL" when it is first stored, and        *)
(* Previous, Next, a chat submission, a pill and the chat toggle leave    *)
(* the selected project, the selected industry and the top-five toggle,   *)
(* stored or held by their widgets, as they were.                          *)
C25_SelectionUntouched ==
    [][/\ (~Has(session_state, "selected_project") /\ Has(session_state', "selected_project"))
             => session_state'["selected_project"] = ALL
       /\ (\/ PageIndexMoved /\ (OccPrevious \/ OccNext \/ SkillsPrevious \/ SkillsNext)
           \/ ChatMoved /\ (SubmitChat \/ ClickPill \/ ToggleChat))
             => /\ Persists(SelectionKeys)
                /\ \A k \in SelectionWidgets \cap DOMAIN widget_state :
                      /\ Has(widget_state', k)
                      /\ widget_state'[k].value = widget_state[k].value]_vars

C25_SelectionAfterNavigationAndChat ==
    /\ page = "occupations" /\ view.page_index = 1 /\ view.visible # <<>>
    /\ session_state["selected_project"] = "P1"
    /\ Len(Messages) = 2 /\ ~session_state["show_chat"]
    /\ Has(session_state, "show_top_five_only") /\ session_state["show_top_five_only"]

(* C26: every heatmap cell counts all filtered skill rows of its          *)
(* preparation and skill category, one per project, occupation and skill, *)
(* and the skills detail table has no two rows with the same occupation   *)
(* and skill.                                                              *)
C26_SkillGrain ==
    SkillsShown =>
       /\ \A k \in DOMAIN view.heatmap_data :
             view.heatmap_data[k].count =
                Cardinality({i \in DOMAIN view.filtered_df :
                    /\ map_preparation_category(view.filtered_df[i].onet_job_zone)
                          = view.heatmap_data[k].preparation_category
                    /\ view.filtered_df[i].skill_category_label
                          = view.heatmap_data[k].skill_category_label})
       /\ \A i, j \in DOMAIN view.details_display :
             (/\ view.details_display[i].Occupation = view.details_display[j].Occupation
              /\ view.details_display[i].Skill = view.details_display[j].Skill) => i = j

(* C27: a pill click adds to the transcript exactly one user entry with   *)
(* the pill's question followed by one assistant entry, no prompt is      *)
(* pending after any interaction, and a re-render without a new event     *)
(* leaves the transcript as it is.                                         *)
C27_PillProcessedOnce ==
    [][/\ Pending' = None
       /\ ClickPill =>
            /\ Len(Messages') = Len(Messages) + 2
            /\ IsPrefix(Messages, Messages')
            /\ Messages'[Len(Messages) + 1].role = "user"
            /\ Messages'[Len(Messages) + 1].content \in PillQuestions
            /\ Messages'[Len(Messages) + 2].role = "assistant"
       /\ OccRerun => Messages' = Messages]_vars

C27_PillThenRerender ==
    /\ Len(Messages) = 2
    /\ Messages[1].content = PillOtherData /\ Messages[2].content = OtherDataResponse
    /\ Pending = None
    /\ page = "occupations" /\ view.responder_calls = <<>>

(* C28: after a chat submission or a pill click show_chat is true,        *)
(* whatever it was; the toggle negates show_chat and leaves the           *)
(* transcript and the pending prompt as they were.                         *)
C28_ShownAfterSubmission ==
    [][/\ (SubmitChat \/ ClickPill) => session_state'["show_chat"] = TRUE
       /\ ToggleChat =>
             /\ session_state'["show_chat"] = ~session_state["show_chat"]
             /\ Messages' = Messages
             /\ Pending' = Pending]_vars

C28_ShownAgain ==
    /\ Len(Messages) = 4
    /\ session_state["show_chat"]
    /\ view.responder_calls = <<Asdf123>>

(* C29: the page index of either detail table, as stored and as shown, is *)
(* never negative, also while the stored index is beyond the last page.   *)
C29_PageIndexNonNegative ==
    /\ \A k \in {"details_page", SkillsPageKey} \cap DOMAIN session_state :
          session_state[k] >= 0
    /\ view.page_index >= 0

C29_BeyondLastPage ==
    /\ view.page = "occupations" /\ view.table_shown
    /\ view.page_index >= view.total_pages
    /\ Has(session_state, SkillsPageKey) /\ session_state[SkillsPageKey] > 0

(* C30: whenever an industry is stored as selected_industry, the          *)
(* occupation table has a row of that industry in the selected project,   *)
(* and the occupations page that is shown has such a row among its        *)
(* filtered rows and a details table that is not empty.                    *)
C30_SelectedIndustryValid ==
    (Has(session_state, "selected_industry") /\ session_state["selected_industry"] # None) =>
       /\ \E i \in DOMAIN df :
             /\ df[i].industry_cat_label = session_state["selected_industry"]
             /\ session_state["selected_project"] \in {ALL, df[i].project_title}
       /\ OccShown =>
             /\ \E i \in DOMAIN view.filtered_df :
                   view.filtered_df[i].industry_cat_label = session_state["selected_industry"]
             /\ view.table_shown

C30_IndustryKeptUnderProject ==
    /\ OccShown /\ view.table_shown
    /\ session_state["selected_project"] # ALL
    /\ session_state["selected_industry"] = Mining
    /\ \E i \in DOMAIN df : df[i].project_title # session_state["selected_project"]

====
